---- MODULE Spec2Model ----
(***************************************************************************)
(* aw-sync: one-directional sync pass between two ActivityWatch stores.    *)
(* Model of src/aw-sync/src/sync.rs: get_or_create_sync_bucket and         *)
(* sync_datastores, one action per AccessMethod call, over the store       *)
(* contract (AccessMethod) both backends implement.                        *)
(*                                                                         *)
(* Strings are sequences of one-character strings, so that format! and     *)
(* str::replace are computed.  Option<T> is a sequence of length <= 1:     *)
(* <<>> is None and <<v>> is Some(v).  Time is an integer.                 *)
(***************************************************************************)
EXTENDS Integers, Sequences, FiniteSets, TLC

\* ------------------------------------------------------------------ bounds
\* Largest timestamp the source application logs.
MaxT == 2
\* Largest duration of a source event.
MaxD == 1
\* Events the source application logs in all (sequential specification).
MaxEvents == 3
\* Passes run in one behaviour.
MaxPasses == 2
\* Fragments the id of a mirrored bucket has before its "-synced-from-"
\* suffix, and fragments the ids of a store with two buckets are made of.
MaxFrags == 4
MaxFragsTwo == 2
\* Events the source application logs in all when two processes sync.
MaxEventsConc == 2

\* -------------------------------------------------------------- constants
\* The pulsetime sync_datastores hands to heartbeat (0.0).
PulsetimeWide == MaxT
Pulsetime == 0

None == <<>>
Some(v) == <<v>>

Max(a, b) == IF a >= b THEN a ELSE b
Abs(a) == IF a >= 0 THEN a ELSE 0 - a

\* ---------------------------------------------------------------- strings
SYNCED == <<"-", "s", "y", "n", "c", "e", "d">>
SYNCED_FROM == SYNCED \o <<"-", "f", "r", "o", "m", "-">>

\* str::replace(pat, ""): the non-overlapping matches of pat, found left to
\* right in one scan, are removed.
RECURSIVE Replace(_, _)
Replace(s, pat) ==
    IF Len(s) < Len(pat) THEN s
    ELSE IF SubSeq(s, 1, Len(pat)) = pat
         THEN Replace(SubSeq(s, Len(pat) + 1, Len(s)), pat)
         ELSE <<Head(s)>> \o Replace(Tail(s), pat)

\* format!("{}-synced-from-{}", bucket_from.id.replace("-synced", ""), hostname)
NewId(bucket_from) ==
    Replace(bucket_from.id, SYNCED) \o SYNCED_FROM \o bucket_from.hostname

\* Does pat occur in s at position i / how many times does it occur.
OccursAt(s, pat, i) == i + Len(pat) - 1 <= Len(s) /\ SubSeq(s, i, i + Len(pat) - 1) = pat
Occurrences(s, pat) == Cardinality({i \in 1..Len(s) : OccursAt(s, pat, i)})

\* ----------------------------------------------------------------- events
EndTime(e) == e.timestamp + e.duration

\* The structural identity of an event across stores.
Triple(e) == <<e.timestamp, e.duration, e.data>>

\* sync_datastores, the map closure: a clone with the id cleared.
NormalizeKeepId(e) == e
Normalize(e) == [e EXCEPT !.id = None]

\* events.sort_by(|a, b| a.timestamp.cmp(&b.timestamp)): a stable sort.
RECURSIVE SortDescending(_)
SortDescending(s) ==
    IF s = <<>> THEN <<>>
    ELSE LET rest == SortDescending(SubSeq(s, 1, Len(s) - 1))
             x == s[Len(s)]
             k == Cardinality({i \in 1..Len(rest) : rest[i].timestamp >= x.timestamp})
         IN SubSeq(rest, 1, k) \o <<x>> \o SubSeq(rest, k + 1, Len(rest))
Unsorted(s) == s
RECURSIVE SortAscending(_)
SortAscending(s) ==
    IF s = <<>> THEN <<>>
    ELSE LET rest == SortAscending(SubSeq(s, 1, Len(s) - 1))
             x == s[Len(s)]
             k == Cardinality({i \in 1..Len(rest) : rest[i].timestamp <= x.timestamp})
         IN SubSeq(rest, 1, k) \o <<x>> \o SubSeq(rest, k + 1, Len(rest))

\* resume_sync_at: the end of the destination's most recent event, if any.
ResumeSyncAtNoDuration(most_recent_events) ==
    IF most_recent_events = <<>> THEN None
    ELSE Some(most_recent_events[1].timestamp)
ResumeSyncAt(most_recent_events) ==
    IF most_recent_events = <<>> THEN None
    ELSE Some(most_recent_events[1].timestamp + most_recent_events[1].duration)

\* ------------------------------------------------------ the store contract
\* A store maps the ids of its buckets to [bucket, events]; events are kept
\* in the order they were written.  An event id is Some(<<store, n>>): ids
\* are local to the store that assigned them.

\* get_bucket: Ok(bucket) or Err(NoSuchBucket).
HasBucket(store, bucket_id) == bucket_id \in DOMAIN store

\* create_bucket on a store that does not hold the id.
CreateBucketIn(store, bucket) ==
    [i \in DOMAIN store \cup {bucket.id} |->
        IF i = bucket.id THEN [bucket |-> bucket, events |-> <<>>] ELSE store[i]]

\* get_event_count(bucket_id, None, None).
GetEventCount(store, bucket_id) == Len(store[bucket_id].events)

\* get_events(bucket_id, start, None, _): the positions of the events with
\* start <= timestamp.
Matching(evs, start) ==
    {i \in 1..Len(evs) : start = None \/ evs[i].timestamp >= start[1]}

\* get_events(bucket_id, None, None, Some(1)): the single most recent event
\* (any one of them when several share the latest timestamp).
MostRecent(evs) ==
    IF evs = <<>> THEN {<<>>}
    ELSE {<<evs[i]>> : i \in {j \in 1..Len(evs) :
                          \A k \in 1..Len(evs) : evs[k].timestamp <= evs[j].timestamp}}

\* All orders in which get_events may materialize the positions in S.
Orders(S) ==
    {f \in [1..Cardinality(S) -> S] : \A i, j \in 1..Cardinality(S) : i # j => f[i] # f[j]}

\* The event as the store persists it: an event without id gets a fresh
\* store-local one, an event with an id is kept as it is.
Persisted(evs, event) ==
    IF event.id = None THEN [event EXCEPT !.id = Some(<<"to", Len(evs) + 1>>)]
    ELSE event

\* heartbeat(bucket_id, event, pulsetime): when the most recently written
\* event ends within pulsetime of the new event's start, it is extended to
\* cover the new one; otherwise the new event is inserted.
Heartbeat(evs, event, pulsetime) ==
    IF evs = <<>> THEN <<Persisted(evs, event)>>
    ELSE LET last == evs[Len(evs)] IN
         IF Abs(event.timestamp - EndTime(last)) <= pulsetime
         THEN [evs EXCEPT ![Len(evs)].duration =
                   Max(EndTime(last), EndTime(event)) - last.timestamp]
         ELSE Append(evs, Persisted(evs, event))

\* --------------------------------------------------------------- the state
VARIABLES
    ds_from,    \* the source store
    ds_to,      \* the destination store
    pass,       \* per process: the locals of its sync_datastores call, and
                \* for its current bucket the number of events fetched and
                \* of heartbeat calls that inserted an event
    passes,     \* number of passes started
    hist        \* history: what the latest pass started from, and the
                \* destination get_or_create_sync_bucket returned for each bucket

vars == <<ds_from, ds_to, pass, passes, hist>>

\* The processes that may run sync_datastores.
Procs == {1, 2}

\* The bucket of a source store (setup_test: the bucket "bucket-0" of one
\* device).
Bucket0 == [id |-> <<"b", "0">>, type |-> "t", hostname |-> <<"h">>, data |-> {}]

Data == {"x", "y"}

Running == {"next", "create", "refetch", "count_old", "recent", "fetch", "heartbeat"}
\* Where the process is inside the body of the loop, a store call ahead.
InBucket == Running \ {"next"}

IdlePass ==
    [pc |-> "idle", buckets_from |-> {}, bucket_from |-> None, bucket_to |-> None,
     eventcount_to_old |-> 0, resume_sync_at |-> None, requested |-> None,
     events |-> <<>>, synced |-> {}, cause |-> None,
     fetched |-> 0, inserted |-> 0]

Lens(store) == [i \in DOMAIN store |-> Len(store[i].events)]

StoreOf(buckets) ==
    [i \in {b.id : b \in buckets} |->
        [bucket |-> CHOOSE b \in buckets : b.id = i, events |-> <<>>]]

InitWith(buckets) ==
    /\ ds_from = StoreOf(buckets)
    /\ ds_to = StoreOf({})
    /\ pass = [p \in Procs |-> IdlePass]
    /\ passes = 0
    /\ hist = [to_start |-> StoreOf({}), from_start |-> Lens(StoreOf(buckets)),
               prev_from_start |-> Lens(StoreOf(buckets)),
               prev_ok |-> FALSE, resolved |-> {}]

Init == InitWith({Bucket0})

\* What is left of a process that panicked: the bucket it was at, the
\* buckets it had not reached, what it had reported, and the error its
\* unwrap() died of.
Panicked(r, cause) ==
    [IdlePass EXCEPT !.pc = "panicked", !.buckets_from = r.buckets_from,
                     !.bucket_from = r.bucket_from, !.synced = r.synced,
                     !.cause = Some(cause)]

\* ------------------------------------------------------------ the actions
NoneRunning == \A q \in Procs : pass[q].pc \notin Running

\* bucket_new: the clone of bucket_from under the new id, with its origin.
Insert(data, key, value) == {kv \in data : kv[1] # key} \cup {<<key, value>>}
BucketNew(bucket_from) ==
    [bucket_from EXCEPT
        !.id = NewId(bucket_from),
        !.data = Insert(Insert(@, "sync.origin", bucket_from.hostname),
                        "sync.id", bucket_from.id)]

\* sync_datastores is called: ds_from.get_buckets().
SyncDatastores(p) ==
    /\ pass[p].pc \in {"idle", "done", "panicked"}
    /\ passes < MaxPasses
    /\ passes' = passes + 1
    /\ pass' = [pass EXCEPT ![p] =
                   [IdlePass EXCEPT !.pc = "next",
                                    !.buckets_from = {ds_from[i].bucket : i \in DOMAIN ds_from}]]
    /\ hist' = [to_start |-> ds_to, from_start |-> Lens(ds_from),
                prev_from_start |-> hist.from_start,
                prev_ok |-> (pass[p].pc = "done"),
                resolved |-> hist.resolved]
    /\ UNCHANGED <<ds_from, ds_to>>

\* The loop takes the next bucket (a HashMap's order is arbitrary);
\* get_or_create_sync_bucket: ds_to.get_bucket(new_id).
GetBucketAlwaysCreate(p) ==
    /\ pass[p].pc = "next"
    /\ \E b \in pass[p].buckets_from :
         pass' = [pass EXCEPT ![p] =
             [@ EXCEPT !.buckets_from = @ \ {b}, !.bucket_from = Some(b), !.pc = "create"]]
    /\ UNCHANGED <<ds_from, ds_to, passes, hist>>
GetBucket(p) ==
    /\ pass[p].pc = "next"
    /\ \E b \in pass[p].buckets_from :
         /\ pass' = [pass EXCEPT ![p] =
             [@ EXCEPT !.buckets_from = @ \ {b},
                       !.bucket_from = Some(b),
                       !.bucket_to = IF HasBucket(ds_to, NewId(b))
                                     THEN Some(ds_to[NewId(b)].bucket) ELSE None,
                       !.pc = IF HasBucket(ds_to, NewId(b)) THEN "count_old" ELSE "create"]]
         /\ hist' = [hist EXCEPT !.resolved =
                        IF HasBucket(ds_to, NewId(b))
                        THEN @ \cup {<<b, ds_to[NewId(b)].bucket.id>>} ELSE @]
    /\ UNCHANGED <<ds_from, ds_to, passes>>

\* get_bucket fails with another error: panic!(e).
GetBucketFails(p) ==
    /\ pass[p].pc = "next"
    /\ \E b \in pass[p].buckets_from :
         pass' = [pass EXCEPT ![p] =
             Panicked([@ EXCEPT !.buckets_from = @ \ {b}, !.bucket_from = Some(b)],
                      "BackendError")]
    /\ UNCHANGED <<ds_from, ds_to, passes, hist>>

\* Err(NoSuchBucket): ds_to.create_bucket(&bucket_new).unwrap().  The store
\* answers BucketAlreadyExists when the id was taken meanwhile, and unwrap
\* panics on it.
CreateBucket(p) ==
    /\ pass[p].pc = "create"
    /\ LET bucket_new == BucketNew(pass[p].bucket_from[1]) IN
       IF HasBucket(ds_to, bucket_new.id)
       THEN /\ pass' = [pass EXCEPT ![p] = Panicked(@, "BucketAlreadyExists")]
            /\ UNCHANGED ds_to
       ELSE /\ ds_to' = CreateBucketIn(ds_to, bucket_new)
            /\ pass' = [pass EXCEPT ![p].pc = "refetch"]
    /\ UNCHANGED <<ds_from, passes, hist>>

\* ds_to.get_bucket(new_id).unwrap() after the creation.
RefetchBucket(p) ==
    /\ pass[p].pc = "refetch"
    /\ pass' = [pass EXCEPT ![p] =
           [@ EXCEPT !.bucket_to = Some(ds_to[NewId(pass[p].bucket_from[1])].bucket),
                     !.pc = "count_old"]]
    /\ hist' = [hist EXCEPT !.resolved =
                   @ \cup {<<pass[p].bucket_from[1],
                              ds_to[NewId(pass[p].bucket_from[1])].bucket.id>>}]
    /\ UNCHANGED <<ds_from, ds_to, passes>>

\* eventcount_to_old = ds_to.get_event_count(bucket_to.id, None, None).
CountOldZero(p) ==
    /\ pass[p].pc = "count_old"
    /\ pass' = [pass EXCEPT ![p] = [@ EXCEPT !.eventcount_to_old = 0, !.pc = "recent"]]
    /\ UNCHANGED <<ds_from, ds_to, passes, hist>>
CountOld(p) ==
    /\ pass[p].pc = "count_old"
    /\ pass' = [pass EXCEPT ![p] =
           [@ EXCEPT !.eventcount_to_old = GetEventCount(ds_to, pass[p].bucket_to[1].id),
                     !.pc = "recent"]]
    /\ UNCHANGED <<ds_from, ds_to, passes, hist>>

\* most_recent_events = ds_to.get_events(bucket_to.id, None, None, Some(1)).
MostRecentEvents(p) ==
    /\ pass[p].pc = "recent"
    /\ \E most_recent_events \in MostRecent(ds_to[pass[p].bucket_to[1].id].events) :
         pass' = [pass EXCEPT ![p] =
             [@ EXCEPT !.resume_sync_at = ResumeSyncAt(most_recent_events),
                       !.pc = "fetch"]]
    /\ UNCHANGED <<ds_from, ds_to, passes, hist>>

\* events = ds_from.get_events(bucket_from.id, resume_sync_at, None, None),
\* each cloned without id, then sorted ascending.
FetchEvents(p) ==
    /\ pass[p].pc = "fetch"
    /\ LET evs == ds_from[pass[p].bucket_from[1].id].events
           start == pass[p].resume_sync_at IN
       \E f \in Orders(Matching(evs, start)) :
         pass' = [pass EXCEPT ![p] =
             [@ EXCEPT !.requested = Some(start),
                       !.events = SortAscending([i \in DOMAIN f |-> Normalize(evs[f[i]])]),
                       !.fetched = Cardinality(DOMAIN f),
                       !.pc = "heartbeat"]]
    /\ UNCHANGED <<ds_from, ds_to, passes, hist>>

\* for event in events: ds_to.heartbeat(bucket_to.id, event, 0.0).
HeartbeatEventFrom(p) ==
    /\ pass[p].pc = "heartbeat"
    /\ pass[p].events # <<>>
    /\ ds_to' = [ds_to EXCEPT ![pass[p].bucket_from[1].id].events =
                    Heartbeat(@, Head(pass[p].events), Pulsetime)]
    /\ pass' = [pass EXCEPT ![p].events = Tail(@)]
    /\ UNCHANGED <<ds_from, passes, hist>>
HeartbeatEvent(p) ==
    /\ pass[p].pc = "heartbeat"
    /\ pass[p].events # <<>>
    /\ ds_to' = [ds_to EXCEPT ![pass[p].bucket_to[1].id].events =
                    Heartbeat(@, Head(pass[p].events), Pulsetime)]
    /\ pass' = [pass EXCEPT ![p] =
           [@ EXCEPT !.events = Tail(@),
                     !.inserted = @ + GetEventCount(ds_to', pass[p].bucket_to[1].id)
                                    - GetEventCount(ds_to, pass[p].bucket_to[1].id)]]
    /\ UNCHANGED <<ds_from, passes, hist>>

\* eventcount_to_new, and the report "Synced {} new events"; then the next
\* bucket, or the return.
CountNew(p) ==
    /\ pass[p].pc = "heartbeat"
    /\ pass[p].events = <<>>
    /\ LET eventcount_to_new == GetEventCount(ds_to, pass[p].bucket_to[1].id)
           synced == pass[p].synced \cup {<<pass[p].bucket_from[1].id,
                                            eventcount_to_new - pass[p].eventcount_to_old>>} IN
       pass' = [pass EXCEPT ![p] =
           IF pass[p].buckets_from = {}
           THEN [IdlePass EXCEPT !.pc = "done", !.synced = synced]
           ELSE [IdlePass EXCEPT !.pc = "next", !.synced = synced,
                                 !.buckets_from = pass[p].buckets_from]]
    /\ UNCHANGED <<ds_from, ds_to, passes, hist>>

\* A store call of the loop body fails and its unwrap() panics: the process
\* is gone.
Panic(p) ==
    /\ pass[p].pc \in InBucket
    /\ pass' = [pass EXCEPT ![p] = Panicked(@, "BackendError")]
    /\ UNCHANGED <<ds_from, ds_to, passes, hist>>

TotalEvents == LET RECURSIVE Sum(_)
                   Sum(S) == IF S = {} THEN 0
                             ELSE LET i == CHOOSE j \in S : TRUE
                                  IN Len(ds_from[i].events) + Sum(S \ {i})
               IN Sum(DOMAIN ds_from)

\* The source application logs an event in one of its buckets, between two
\* passes.
InsertEvent(limit) ==
    /\ TotalEvents < limit
    /\ NoneRunning
    /\ \E i \in DOMAIN ds_from, t \in 0..MaxT, d \in 0..MaxD, x \in Data :
         ds_from' = [ds_from EXCEPT ![i].events =
             Append(@, [id |-> Some(<<"from", Len(@) + 1>>), timestamp |-> t,
                        duration |-> d, data |-> x])]
    /\ UNCHANGED <<ds_to, pass, passes, hist>>

\* sync_run: one process, one pass after the other.
Next ==
    \/ InsertEvent(MaxEvents)
    \/ SyncDatastores(1)
    \/ GetBucket(1)
    \/ GetBucketFails(1)
    \/ CreateBucket(1)
    \/ RefetchBucket(1)
    \/ CountOld(1)
    \/ MostRecentEvents(1)
    \/ FetchEvents(1)
    \/ HeartbeatEvent(1)
    \/ CountNew(1)
    \/ Panic(1)

Spec == Init /\ [][Next]_vars

\* ------------------------------------------- stores with any bucket ids
\* Bucket ids are made of the pieces "-synced" is made of and found next to.
FROM == <<"-", "f", "r", "o", "m", "-">>
Frags == {<<"b">>, <<"-", "s", "y">>, <<"n", "c", "e", "d">>, SYNCED, FROM}
RECURSIVE Ids(_)
Ids(n) == IF n = 1 THEN Frags
          ELSE Ids(n - 1) \cup {s \o f : s \in Ids(n - 1), f \in Frags}
Hosts == {<<"h">>, <<"g">>}

BucketOf(i, h) == [id |-> i, type |-> "t", hostname |-> h, data |-> {}]

\* A source store with one bucket that is itself a mirror (its id ends in
\* "-synced-from-g"), or with two buckets of different ids; no events, and
\* the destination is empty.
InitBuckets ==
    \/ \E i \in Ids(MaxFrags) :
         InitWith({BucketOf(i \o SYNCED_FROM \o <<"g">>, <<"h">>)})
    \/ \E i1, i2 \in Ids(MaxFragsTwo), h1, h2 \in Hosts :
         /\ i1 # i2
         /\ InitWith({BucketOf(i1, h1), BucketOf(i2, h2)})

NextBuckets ==
    \/ SyncDatastores(1)
    \/ GetBucket(1)
    \/ GetBucketFails(1)
    \/ CreateBucket(1)
    \/ RefetchBucket(1)
    \/ CountOld(1)
    \/ MostRecentEvents(1)
    \/ FetchEvents(1)
    \/ CountNew(1)
    \/ Panic(1)

SpecBuckets == InitBuckets /\ [][NextBuckets]_vars

\* ------------------------------------------------ two processes at once
\* Two processes run sync_datastores on the same two stores.
NextConc ==
    \/ InsertEvent(MaxEventsConc)
    \/ \E p \in Procs :
         \/ SyncDatastores(p)
         \/ GetBucket(p)
         \/ GetBucketFails(p)
         \/ CreateBucket(p)
         \/ RefetchBucket(p)
         \/ CountOld(p)
         \/ MostRecentEvents(p)
         \/ FetchEvents(p)
         \/ HeartbeatEvent(p)
         \/ CountNew(p)
         \/ Panic(p)

SpecConc == Init /\ [][NextConc]_vars

\* ------------------------------------------- the destination is an AwClient
\* What the server holds after AwClient's create_bucket(id, type): the id and
\* the type it was handed, the hostname of the client, no metadata.
AwClientBucket(bucket, hostname) ==
    [id |-> bucket.id, type |-> bucket.type, hostname |-> hostname, data |-> {}]

\* impl AccessMethod for AwClient, create_bucket: only bucket.id and
\* bucket._type reach the server, and unwrap() panics on every error.
CreateBucketAwClient(p) ==
    /\ pass[p].pc = "create"
    /\ LET bucket_new == BucketNew(pass[p].bucket_from[1]) IN
       IF HasBucket(ds_to, bucket_new.id)
       THEN /\ pass' = [pass EXCEPT ![p] = Panicked(@, "BucketAlreadyExists")]
            /\ UNCHANGED ds_to
       ELSE /\ \E hostname \in Hosts :
                 ds_to' = CreateBucketIn(ds_to, AwClientBucket(bucket_new, hostname))
            /\ pass' = [pass EXCEPT ![p].pc = "refetch"]
    /\ UNCHANGED <<ds_from, passes, hist>>

\* sync_run with an AwClient as ds_to: one process, one pass after the other.
NextClient ==
    \/ InsertEvent(MaxEventsConc)
    \/ SyncDatastores(1)
    \/ GetBucket(1)
    \/ GetBucketFails(1)
    \/ CreateBucketAwClient(1)
    \/ RefetchBucket(1)
    \/ CountOld(1)
    \/ MostRecentEvents(1)
    \/ FetchEvents(1)
    \/ HeartbeatEvent(1)
    \/ CountNew(1)
    \/ Panic(1)

SpecClient == Init /\ [][NextClient]_vars

\* ------------------------------- the destination has a bucket of its own
\* The destination is a store in use (sync_run: a running server): it holds
\* a bucket of its own device under the id the source uses too, with an
\* event.
OwnBucket == [id |-> Bucket0.id, type |-> "t", hostname |-> <<"g">>, data |-> {}]
OwnEvent == [id |-> Some(<<"to", 1>>), timestamp |-> 0, duration |-> 0, data |-> "x"]
OwnStore == [i \in {OwnBucket.id} |-> [bucket |-> OwnBucket, events |-> <<OwnEvent>>]]

InitOwn ==
    /\ ds_from = StoreOf({Bucket0})
    /\ ds_to = OwnStore
    /\ pass = [p \in Procs |-> IdlePass]
    /\ passes = 0
    /\ hist = [to_start |-> OwnStore, from_start |-> Lens(StoreOf({Bucket0})),
               prev_from_start |-> Lens(StoreOf({Bucket0})),
               prev_ok |-> FALSE, resolved |-> {}]

NextOwn ==
    \/ InsertEvent(MaxEventsConc)
    \/ SyncDatastores(1)
    \/ GetBucket(1)
    \/ GetBucketFails(1)
    \/ CreateBucket(1)
    \/ RefetchBucket(1)
    \/ CountOld(1)
    \/ MostRecentEvents(1)
    \/ FetchEvents(1)
    \/ HeartbeatEvent(1)
    \/ CountNew(1)
    \/ Panic(1)

SpecOwn == InitOwn /\ [][NextOwn]_vars

\* --------------------------------------------------------------- the claims
\* The destination bucket of a source bucket.
DestEvents(store, b) == IF HasBucket(store, NewId(b)) THEN store[NewId(b)].events ELSE <<>>

\* The events of the source bucket the latest pass started from.
SourceAtStart(b) == SubSeq(ds_from[b.id].events, 1, hist.from_start[b.id])

\* The latest pass completed, and it started from the source the completed
\* pass before it started from.
SecondPassDone ==
    /\ pass[1].pc = "done"
    /\ hist.prev_ok
    /\ hist.from_start = hist.prev_from_start

\* C1: a pass run after a completed pass, with no new source events, reports
\* a delta of 0 for every bucket and leaves the destination unchanged.
C1_Idempotence ==
    SecondPassDone =>
        /\ \A r \in pass[1].synced : r[2] = 0
        /\ ds_to = hist.to_start

DistinctTimestamps(evs) ==
    \A i, j \in 1..Len(evs) : i # j => evs[i].timestamp # evs[j].timestamp
ZeroDurations(evs) == \A i \in 1..Len(evs) : evs[i].duration = 0

\* The latest pass completed, and it found the destination of b empty.
FirstPassDone(b) ==
    /\ pass[1].pc = "done"
    /\ DestEvents(hist.to_start, b) = <<>>

\* C2: after a completed first pass into an empty destination, the mirror of
\* a bucket whose events have distinct timestamps and duration 0 holds one
\* event per source event, with its timestamp, duration and data, and the
\* reported delta is their number.
C2_FirstPass ==
    \A i \in DOMAIN ds_from :
        LET b == ds_from[i].bucket
            src == SourceAtStart(b)
            dst == DestEvents(ds_to, b) IN
        (FirstPassDone(b) /\ DistinctTimestamps(src) /\ ZeroDurations(src)) =>
            /\ HasBucket(ds_to, NewId(b))
            /\ Len(dst) = Len(src)
            /\ \A k \in 1..Len(src) : \E m \in 1..Len(dst) : Triple(dst[m]) = Triple(src[k])
            /\ <<b.id, Len(src)>> \in pass[1].synced

C2_Witness ==
    /\ FirstPassDone(Bucket0)
    /\ hist.from_start[Bucket0.id] = 3
    /\ DistinctTimestamps(SourceAtStart(Bucket0))
    /\ ZeroDurations(SourceAtStart(Bucket0))
    /\ Len(DestEvents(ds_to, Bucket0)) = 3

\* The events appended to b between the start of the pass before the latest
\* and the start of the latest.
Appended(b) ==
    SubSeq(ds_from[b.id].events, hist.prev_from_start[b.id] + 1, hist.from_start[b.id])

\* The latest pass completed after a completed pass that had mirrored
\* something, and the events appended in between all start after the end of
\* everything mirrored before.
IncrementalPassDone(b) ==
    /\ pass[1].pc = "done"
    /\ hist.prev_ok
    /\ DestEvents(hist.to_start, b) # <<>>
    /\ Appended(b) # <<>>
    /\ \A k \in 1..Len(Appended(b)) :
         \A m \in 1..Len(DestEvents(hist.to_start, b)) :
            Appended(b)[k].timestamp > EndTime(DestEvents(hist.to_start, b)[m])

\* C3: the pass after such appends adds exactly the appended events to the
\* destination (delta = number appended) and leaves the earlier ones as they
\* were.
C3_IncrementalPass ==
    \A i \in DOMAIN ds_from :
        LET b == ds_from[i].bucket
            old == DestEvents(hist.to_start, b)
            dst == DestEvents(ds_to, b) IN
        IncrementalPassDone(b) =>
            /\ Len(dst) = Len(old) + Len(Appended(b))
            /\ <<b.id, Len(Appended(b))>> \in pass[1].synced
            /\ SubSeq(dst, 1, Len(old)) = old
            /\ \A k \in 1..Len(Appended(b)) :
                 \E m \in Len(old) + 1..Len(dst) : Triple(dst[m]) = Triple(Appended(b)[k])

\* The destination events the cursor of the current bucket was read from:
\* in a sequential pass, the ones the bucket held when the pass started.
CursorEvents(p) == DestEvents(hist.to_start, pass[p].bucket_from[1])

\* C4: the source get_events call of a bucket is issued with start = the end
\* (timestamp + duration) of the destination's latest event, with no start
\* when the destination bucket is empty, and it fetches no event that starts
\* before that instant.
C4_ResumeCorrectness ==
    pass[1].requested # None =>
        LET old == CursorEvents(1)
            start == pass[1].requested[1] IN
        /\ old = <<>> => start = None
        /\ old # <<>> =>
             /\ \E j \in 1..Len(old) :
                  /\ \A k \in 1..Len(old) : old[k].timestamp <= old[j].timestamp
                  /\ start = Some(old[j].timestamp + old[j].duration)
             /\ \A k \in 1..Len(pass[1].events) : pass[1].events[k].timestamp >= start[1]

C4_Witness ==
    /\ pass[1].requested # None
    /\ Len(CursorEvents(1)) = 2
    /\ \E k \in 1..2 : CursorEvents(1)[k].duration > 0
    /\ pass[1].requested[1] = Some(2)
    /\ pass[1].events # <<>>

StrictlyIncreasing(evs) ==
    \A i, j \in 1..Len(evs) : i < j => evs[i].timestamp < evs[j].timestamp
NonDecreasing(evs) ==
    \A i, j \in 1..Len(evs) : i < j => evs[i].timestamp <= evs[j].timestamp

\* C5: when the source bucket's events have strictly increasing timestamps
\* (every append later than all before it), the destination bucket's events,
\* in the order written, are non-decreasing in timestamp, after any sequence
\* of passes.
C5_OrderingPreservation ==
    \A i \in DOMAIN ds_from :
        StrictlyIncreasing(ds_from[i].events) =>
            NonDecreasing(DestEvents(ds_to, ds_from[i].bucket))

C5_Witness ==
    /\ pass[1].pc = "done"
    /\ passes = 2
    /\ hist.prev_ok
    /\ hist.prev_from_start[Bucket0.id] = 1
    /\ Len(ds_from[Bucket0.id].events) = 3
    /\ StrictlyIncreasing(ds_from[Bucket0.id].events)
    /\ Len(DestEvents(ds_to, Bucket0)) = 3

\* The id is that of a mirror: "-synced-from-" occurs in it once.
OneSuffix(id) == Occurrences(id, SYNCED_FROM) = 1

\* C6: get_or_create_sync_bucket returns a bucket of the same id every time
\* it is applied to the same source bucket, creates it only the first time,
\* and for a source bucket whose id ends in one "-synced-from-<x>" suffix the
\* id it returns contains "-synced-from-" exactly once.
C6_IdentityDeterminism ==
    /\ \A r1, r2 \in hist.resolved : r1[1] = r2[1] => r1[2] = r2[2]
    /\ \A p \in Procs : pass[p].pc = "create" =>
         \A r \in hist.resolved : r[1] # pass[p].bucket_from[1]
    /\ \A r \in hist.resolved : OneSuffix(r[1].id) => OneSuffix(r[2])

\* C7: two source buckets that differ in id or hostname are never mirrored
\* into the same destination bucket.
C7_CollisionFreedom ==
    \A r1, r2 \in hist.resolved : r1[1] # r2[1] => r1[2] # r2[2]

\* C8: every event a pass hands to heartbeat has no id, and no destination
\* event carries an id of the source store.
C8_IdStripping ==
    /\ \A p \in Procs : \A k \in 1..Len(pass[p].events) : pass[p].events[k].id = None
    /\ \A i \in DOMAIN ds_to : \A k \in 1..Len(ds_to[i].events) :
         /\ ds_to[i].events[k].id # None
         /\ ds_to[i].events[k].id[1][1] # "from"

C8_Witness ==
    /\ pass[1].pc = "heartbeat"
    /\ Len(pass[1].events) = 1
    /\ Len(DestEvents(ds_to, Bucket0)) = 2
    /\ \A k \in 1..Len(ds_from[Bucket0.id].events) : ds_from[Bucket0.id].events[k].id # None

\* C9: a failure on one bucket never stops the pass: a pass that failed on a
\* bucket has left no other bucket of the source unprocessed.
C9_FailureIsolation ==
    \A p \in Procs : pass[p].pc = "panicked" => pass[p].buckets_from = {}

\* C10: a create_bucket answered BucketAlreadyExists is taken as success: no
\* pass dies of it.
C10_CreationRace ==
    \A p \in Procs : pass[p].cause # Some("BucketAlreadyExists")

\* The value of a key in a bucket's metadata, if it has one.
Metadata(bucket, key) == {kv[2] : kv \in {x \in bucket.data : x[1] = key}}

\* The provenance of source bucket b is on mirror bucket t.
Provenance(t, b) ==
    /\ Metadata(t, "sync.origin") = {b.hostname}
    /\ Metadata(t, "sync.id") = {b.id}

\* C11: the bucket get_or_create_sync_bucket re-fetches after creating it is
\* a copy of the source bucket under the new id (same type and hostname)
\* whose metadata holds sync.origin = source hostname and sync.id = source
\* bucket id; with a Datastore and with an AwClient as destination.
C11_ProvenanceOnCreation ==
    [][\A p \in Procs :
         (pass[p].pc = "refetch" /\ pass'[p].pc = "count_old") =>
            LET b == pass[p].bucket_from[1]
                t == pass'[p].bucket_to[1] IN
            /\ t.id = NewId(b)
            /\ t.type = b.type
            /\ t.hostname = b.hostname
            /\ Provenance(t, b)]_vars

\* C12: create_bucket is called for a destination id only after get_bucket
\* reported it absent; no step removes a destination bucket or changes the
\* attributes of one that exists (so sync.origin and sync.id stay as created);
\* a bucket only appears by the create_bucket of a pass.
C12_WriteOnceBuckets ==
    [][/\ \A p \in Procs :
            (pass[p].pc = "next" /\ pass'[p].pc = "create") =>
                ~HasBucket(ds_to, NewId(pass'[p].bucket_from[1]))
       /\ DOMAIN ds_to \subseteq DOMAIN ds_to'
       /\ \A i \in DOMAIN ds_to : ds_to'[i].bucket = ds_to[i].bucket
       /\ \A i \in DOMAIN ds_to' \ DOMAIN ds_to :
            \E p \in Procs : /\ pass[p].pc = "create"
                             /\ pass[p].bucket_to = None
                             /\ i = NewId(pass[p].bucket_from[1])]_vars

\* A second pass has run to its end on a mirror the first pass created, and
\* the mirror still has the provenance it was created with.
C12_Witness ==
    /\ pass[1].pc = "done"
    /\ passes = 2
    /\ HasBucket(hist.to_start, NewId(Bucket0))
    /\ Len(DestEvents(ds_to, Bucket0)) > Len(DestEvents(hist.to_start, Bucket0))
    /\ Provenance(ds_to[NewId(Bucket0)].bucket, Bucket0)

\* The latest timestamp among the events evs.
LatestTimestamp(evs) ==
    CHOOSE t \in {evs[k].timestamp : k \in 1..Len(evs)} :
        \A k \in 1..Len(evs) : evs[k].timestamp <= t

\* C13: every step leaves each destination event in its bucket with the
\* timestamp, duration and data it has, and every event a step adds starts
\* no earlier than the latest event the bucket held.
C13_AppendOnlyEvents ==
    [][\A i \in DOMAIN ds_to :
         LET old == ds_to[i].events
             new == ds_to'[i].events IN
         /\ Len(new) >= Len(old)
         /\ \A k \in 1..Len(old) : Triple(new[k]) = Triple(old[k])
         /\ \A m \in Len(old) + 1..Len(new) :
              old # <<>> => new[m].timestamp >= LatestTimestamp(old)]_vars

\* for event in events: heartbeat(bucket_to.id, event, 0.0), all of them.
RECURSIVE HeartbeatAll(_, _)
HeartbeatAll(evs, events) ==
    IF events = <<>> THEN evs
    ELSE HeartbeatAll(Heartbeat(evs, Head(events), Pulsetime), Tail(events))

\* What one uninterrupted pass may leave in an empty destination bucket for
\* the source events src: fetched whole in some order, normalized, sorted,
\* written.
SinglePass(src) ==
    {HeartbeatAll(<<>>, SortAscending([i \in DOMAIN f |-> Normalize(src[f[i]])])) :
        f \in Orders(1..Len(src))}

\* The two sequences hold the same events, each as often.
SameEvents(a, b) ==
    \A t \in {Triple(a[k]) : k \in 1..Len(a)} \cup {Triple(b[k]) : k \in 1..Len(b)} :
        Cardinality({k \in 1..Len(a) : Triple(a[k]) = t}) =
        Cardinality({k \in 1..Len(b) : Triple(b[k]) = t})

\* The first pass, into an empty destination, was interrupted; the source
\* did not change; the second pass ran to its end.
InterruptedThenRerun ==
    /\ pass[1].pc = "done"
    /\ passes = 2
    /\ ~hist.prev_ok
    /\ hist.from_start = hist.prev_from_start

\* C14: after an interrupted pass and a complete re-run with no source
\* change, each destination bucket holds the events one uninterrupted pass
\* would have left in it, in non-decreasing timestamp order.
C14_InterruptAndRerun ==
    InterruptedThenRerun =>
        \A i \in DOMAIN ds_from :
            LET b == ds_from[i].bucket
                dst == DestEvents(ds_to, b) IN
            /\ \E r \in SinglePass(SourceAtStart(b)) : SameEvents(dst, r)
            /\ NonDecreasing(dst)

\* The process has read the cursor of its bucket and has not yet made its
\* last heartbeat call and count.
CursorRead(p) == pass[p].pc \in {"fetch", "heartbeat"}

\* How often the events evs hold the event of triple t.
Copies(evs, t) == Cardinality({k \in 1..Len(evs) : Triple(evs[k]) = t})

\* No event is in dst more often than once and than it is in src.
NoDuplicates(dst, src) ==
    \A k \in 1..Len(dst) :
        Copies(dst, Triple(dst[k])) <= Max(1, Copies(src, Triple(dst[k])))

\* C15: two passes never both hold a cursor of the same destination bucket
\* with writes still ahead, and no destination bucket holds a duplicated or
\* an out-of-order event.
C15_SingleWriter ==
    /\ \A p, q \in Procs :
         (p # q /\ CursorRead(p) /\ CursorRead(q)) =>
             pass[p].bucket_to[1].id # pass[q].bucket_to[1].id
    /\ \A i \in DOMAIN ds_from :
         /\ NoDuplicates(DestEvents(ds_to, ds_from[i].bucket), ds_from[i].events)
         /\ NonDecreasing(DestEvents(ds_to, ds_from[i].bucket))

\* C16: a heartbeat call of a pass (pulsetime 0) for an event the destination
\* bucket does not hold appends it as an event of its own and leaves every
\* event of the bucket as it was.
C16_ZeroMergeWindow ==
    [][\A p \in Procs :
         (pass[p].pc = "heartbeat" /\ pass[p].events # <<>>
              /\ pass'[p].pc = "heartbeat"
              /\ pass'[p].events = Tail(pass[p].events)) =>
            LET event == Head(pass[p].events)
                old == ds_to[pass[p].bucket_to[1].id].events
                new == ds_to'[pass[p].bucket_to[1].id].events IN
            Copies(old, Triple(event)) = 0 =>
                /\ Len(new) = Len(old) + 1
                /\ SubSeq(new, 1, Len(old)) = old
                /\ Triple(new[Len(new)]) = Triple(event)]_vars

\* C17: every heartbeat call of a pass comes after the cursor read and the
\* source fetch of its bucket and hands over an event no later than every
\* event still to be written, so the calls of a bucket are in non-decreasing
\* timestamp order; the destination's events change in no other step.
C17_ChronologicalCommit ==
    [][/\ \A p \in Procs :
            (pass[p].pc = "heartbeat" /\ pass[p].events # <<>>
                 /\ pass'[p].pc = "heartbeat"
                 /\ pass'[p].events = Tail(pass[p].events)) =>
               /\ pass[p].requested = Some(pass[p].resume_sync_at)
               /\ \A k \in 1..Len(pass[p].events) :
                    Head(pass[p].events).timestamp <= pass[p].events[k].timestamp
       /\ \A i \in DOMAIN ds_to :
            ds_to'[i].events # ds_to[i].events =>
                \E p \in Procs : /\ pass[p].pc = "heartbeat"
                                 /\ pass'[p].pc = "heartbeat"
                                 /\ pass[p].bucket_to[1].id = i
                                 /\ pass[p].events # <<>>
                                 /\ pass'[p].events = Tail(pass[p].events)]_vars

\* The source logged three events latest first, and the pass has written
\* the two earliest and has the latest still to write.
C17_Witness ==
    /\ pass[1].pc = "heartbeat"
    /\ Len(ds_from[Bucket0.id].events) = 3
    /\ \A k \in 1..2 : ds_from[Bucket0.id].events[k].timestamp >
                           ds_from[Bucket0.id].events[k + 1].timestamp
    /\ Len(DestEvents(ds_to, Bucket0)) = 2
    /\ StrictlyIncreasing(DestEvents(ds_to, Bucket0))
    /\ Len(pass[1].events) = 1
    /\ pass[1].events[1].timestamp = MaxT

\* C18: the count before is read once the destination bucket is resolved and
\* before any heartbeat call of the bucket, and the delta the pass reports
\* for a bucket, count after - count before, is the number of its heartbeat
\* calls that inserted an event: not negative, and at most the number of
\* events fetched.
C18_DeltaAccounting ==
    [][/\ pass[1].pc = "count_old" =>
            /\ pass[1].bucket_to # None
            /\ pass[1].fetched = 0 /\ pass[1].inserted = 0
       /\ (pass[1].pc = "heartbeat" /\ pass'[1].pc \in {"next", "done"}) =>
            /\ pass[1].events = <<>>
            /\ \E d \in 0..pass[1].fetched :
                 /\ d = pass[1].inserted
                 /\ <<pass[1].bucket_from[1].id, d>> \in pass'[1].synced]_vars

\* A second pass is about to report: of the three events it fetched, one
\* heartbeat inserted an event and two extended one.
C18_Witness ==
    /\ pass[1].pc = "heartbeat"
    /\ pass[1].events = <<>>
    /\ pass[1].eventcount_to_old = 1
    /\ pass[1].fetched = 3
    /\ pass[1].inserted = 1

\* The ids get_or_create_sync_bucket derives from the buckets of the source.
DerivedIds == {NewId(ds_from[i].bucket) : i \in DOMAIN ds_from}

\* C19: no step of a pass changes the source store (its buckets, its events,
\* their ids), and a step changes or creates in the destination only
\* buckets whose id is derived from a source bucket.
C19_SourceReadOnly ==
    [][/\ pass' # pass => ds_from' = ds_from
       /\ \A i \in DOMAIN ds_to : i \notin DerivedIds =>
            i \in DOMAIN ds_to' /\ ds_to'[i] = ds_to[i]
       /\ DOMAIN ds_to' \ DOMAIN ds_to \subseteq DerivedIds]_vars

\* Two passes have mirrored two events of the source next to the bucket the
\* destination had, which is as it was.
C19_Witness ==
    /\ pass[1].pc = "done"
    /\ passes = 2
    /\ Len(ds_from[Bucket0.id].events) = 2
    /\ Len(DestEvents(ds_to, Bucket0)) = 2
    /\ HasBucket(ds_to, OwnBucket.id)
    /\ ds_to[OwnBucket.id] = OwnStore[OwnBucket.id]
    /\ \A k \in 1..2 : ds_from[Bucket0.id].events[k].id = Some(<<"from", k>>)

\* The source event e is represented in dst: an event of its timestamp and
\* data covers its duration.
Represented(e, dst) ==
    \E m \in 1..Len(dst) :
        /\ dst[m].timestamp = e.timestamp
        /\ dst[m].data = e.data
        /\ dst[m].duration >= e.duration

\* Every pass so far ran to its end, the latest one included.
AllPassesCompleted ==
    /\ pass[1].pc = "done"
    /\ passes = 1 \/ hist.prev_ok

\* C20: after completed passes interleaved with additions to the source,
\* every event the source bucket held when the last pass started is
\* represented in the destination bucket.  Stated for the sources whose
\* events have distinct timestamps and duration 0, where no heartbeat
\* extends an event: there an event can only be missing because the cursor
\* has moved past its timestamp.
C20_MirrorCompleteness ==
    AllPassesCompleted =>
        \A i \in DOMAIN ds_from :
            LET b == ds_from[i].bucket
                src == SourceAtStart(b) IN
            (DistinctTimestamps(src) /\ ZeroDurations(src)) =>
                \A k \in 1..Len(src) : Represented(src[k], DestEvents(ds_to, b))

====
